---- MODULE Spec2Model ----
(***************************************************************************)
(* The external-miner facade of the ethash engine                          *)
(* (consensus/ethash/api.go): GetWork, SubmitWork and SubmitHashrate, each  *)
(* caller a goroutine, talking to the remote sealer's worker loop over the  *)
(* unbuffered intake channels of the remote handle and racing every send    *)
(* against the shutdown signal exitCh; and GetHashrate, which reads the     *)
(* engine's aggregate hash rate.                                            *)
(*                                                                         *)
(* The worker loop itself (the receiver of the intake channels, the writer  *)
(* of the reply channels and the closer of exitCh) is not part of api.go;   *)
(* it is modelled from the specification's description of the engine.       *)
(***************************************************************************)
EXTENDS Integers, Sequences, FiniteSets, TLC

\* ------------------------------------------------------------------ bounds

\* Number of caller goroutines; each makes one call of one operation.
MaxCalls == 2

Calls == 1..MaxCalls

\* ------------------------------------------------------------------ values

\* The nil error.
Nil == "<nil>"

\* errors.New("not supported") of GetWork's first branch.
ErrNotSupported == "not supported"

\* Mutant: the shutdown branch reuses the text of the "not supported" error.
errEthashStopped_Same == ErrNotSupported

\* var errEthashStopped = errors.New("ethash stopped")
errEthashStopped == "ethash stopped"

\* Number of fields of a work package ([11]string).
WorkLen == 11

\* [11]string{}: the zero value of the result array.
EmptyWork == [i \in 1..WorkLen |-> ""]

\* Work packages the worker may hand out.
WorkPackages ==
  { <<"0xpow1", "0xseed1", "0xtarget1", "0x10", "0xparent1", "0x7a1200",
      "0x5208", "0x2", "0x0", "0xf90211", "0.124">>,
    <<"0.5", "0xf90212", "0x1", "0x3", "0x5209", "0x7a1201",
      "0xparent2", "0x11", "0xtarget2", "0xseed2", "0xpow2">> }

\* Errors the worker may report on a work request.
FetchErrors == {"no mining work available yet", "internal fault"}

\* Errors the worker may report on a submitted solution.
SubmitErrors == {"invalid solution", "stale work"}

\* The value carried by a completion signal (struct{}{}).
Signal == "done"

\* Caller-supplied values of SubmitWork and SubmitHashrate.
Nonces == {7}
Hashes == {"0xh1"}
Digests == {"0xd1"}
Rates == {1000}
Ids == {"0xid1"}

\* The hash rate of the local miner, in tenths of a hash per second (the
\* engine's rate is a float64).
LocalRate == 15005

\* A reported rate (hashes per second) in tenths.
RateTenths(rate) == rate * 10

\* A *string argument: nil or a pointer to a text (a sequence of characters).
NilStr == [isNil |-> TRUE, val |-> <<>>]
StrPtr(s) == [isNil |-> FALSE, val |-> s]

\* Texts a caller may pass as extra nonce.
ExtraNonceTexts ==
  { <<>>,
    <<"0", "x", "1", "F">>,
    <<"1", "f">>,
    <<"0", "x", "1">>,
    <<"0", "x", "g", "1">> }

ExtraNonceArgs == {NilStr} \cup {StrPtr(s) : s \in ExtraNonceTexts}

\* ------------------------------------------------------------------ hexutil

HexDigits ==
  <<"0", "1", "2", "3", "4", "5", "6", "7", "8", "9",
    "a", "b", "c", "d", "e", "f">>
HexUpper == <<"A", "B", "C", "D", "E", "F">>

IsHexChar(ch) ==
  \/ \E i \in 1..Len(HexDigits) : HexDigits[i] = ch
  \/ \E i \in 1..Len(HexUpper) : HexUpper[i] = ch

HexVal(ch) ==
  IF \E i \in 1..Len(HexDigits) : HexDigits[i] = ch
  THEN (CHOOSE i \in 1..Len(HexDigits) : HexDigits[i] = ch) - 1
  ELSE (CHOOSE i \in 1..Len(HexUpper) : HexUpper[i] = ch) + 9

has0xPrefix(input) ==
  /\ Len(input) >= 2
  /\ input[1] = "0"
  /\ input[2] \in {"x", "X"}

\* hex.DecodeString on the text after the prefix: the bytes of the leading
\* well-formed pairs.
RECURSIVE HexPairs(_)
HexPairs(s) ==
  IF Len(s) < 2 \/ ~IsHexChar(s[1]) \/ ~IsHexChar(s[2])
  THEN <<>>
  ELSE <<HexVal(s[1]) * 16 + HexVal(s[2])>> \o HexPairs(SubSeq(s, 3, Len(s)))

\* hexutil.Decode: the bytes and the error.
Decode(input) ==
  IF Len(input) = 0 THEN [bytes |-> <<>>, err |-> "empty hex string"]
  ELSE IF ~has0xPrefix(input)
  THEN [bytes |-> <<>>, err |-> "hex string without 0x prefix"]
  ELSE LET body == SubSeq(input, 3, Len(input))
           bytes == HexPairs(body)
       IN IF \E i \in 1..Len(body) : ~IsHexChar(body[i])
          THEN [bytes |-> bytes, err |-> "invalid hex string"]
          ELSE IF Len(body) % 2 = 1
          THEN [bytes |-> bytes, err |-> "hex string of odd length"]
          ELSE [bytes |-> bytes, err |-> Nil]

\* ------------------------------------------------------------------ state

VARIABLES
  remote,        \* api.ethash.remote != nil
  exitCh,        \* "open" or "closed": the shutdown signal
  fetchWorkCh,   \* senders blocked on the work-request channel: <<call, message>>
  submitWorkCh,  \* senders blocked on the solution-submission channel
  submitRateCh,  \* senders blocked on the rate-submission channel
  chans,         \* the buffer of every reply channel
  pc,            \* each call's position: "idle", "send", "wait", "done"
  op,            \* each call's operation
  ret,           \* GetWork's return values: [res, err]
  ok,            \* SubmitWork's and SubmitHashrate's return value
  extraNonceStr, \* SubmitWork's extraNonceStr argument
  hr,            \* GetHashrate's return value
  engineRate,    \* the engine's aggregate hash rate, in tenths of a hash/s
  taken,         \* messages the worker has received and not yet answered
  offered,       \* history: <<call, channel>> of every message offered
  delivered,     \* history: <<call, channel>> of every message received, in order
  replied,       \* history: what the worker wrote for each call's message
  earlyClose     \* history: exitCh was closed before any call was made

vars ==
  <<remote, exitCh, fetchWorkCh, submitWorkCh, submitRateCh, chans, pc, op,
    ret, ok, extraNonceStr, hr, engineRate, taken, offered, delivered,
    replied, earlyClose>>

ChanKinds == {"workCh", "errc", "done"}
ChanIds == Calls \X ChanKinds

NoReply == [kind |-> "none", val |-> Nil, work |-> EmptyWork]

\* ------------------------------------------------------------------ messages

\* Mutant: the reply channels are made once and shared by all calls.
MakeChan_Shared(c, kind) == <<1, kind>>

\* make(chan T, 1): a fresh channel of the calling goroutine.
MakeChan(c, kind) == <<c, kind>>

\* &sealWork{errc: errc, res: workCh}
sealWork(c) == [errc |-> MakeChan(c, "errc"), res |-> MakeChan(c, "workCh")]

\* Mutant: the error channel of a submission is made once and reused.
mineResult_SharedErrc(c, nonce, hash, digest, extraNonce) ==
  [nonce |-> nonce, mixDigest |-> digest, hash |-> hash,
   extraNonce |-> extraNonce, errc |-> <<1, "errc">>]

\* &mineResult{nonce, mixDigest, hash, extraNonce, errc}
mineResult(c, nonce, hash, digest, extraNonce) ==
  [nonce |-> nonce, mixDigest |-> digest, hash |-> hash,
   extraNonce |-> extraNonce, errc |-> MakeChan(c, "errc")]

\* &hashrate{done: done, rate: uint64(rate), id: id}; hexutil.Uint64 is a
\* uint64, so the conversion keeps the value.
hashrate(c, rate, id) ==
  [done |-> MakeChan(c, "done"), rate |-> rate, id |-> id]

\* The buffer of a reply channel after a send and after a receive.
Send(ch, v) == [chans EXCEPT ![ch] = Append(@, v)]
Recv(ch) == [chans EXCEPT ![ch] = Tail(@)]
Ready(ch) == Len(chans[ch]) > 0
\* Mutant: make(chan T), a channel without a buffer.
HasRoom_Unbuffered(ch) == Len(chans[ch]) < 0

\* make(chan T, 1): a send does not block while the buffer is empty.
HasRoom(ch) == Len(chans[ch]) < 1

\* ------------------------------------------------------------------ Init

Init ==
  /\ remote \in BOOLEAN
  /\ exitCh = "open"
  /\ fetchWorkCh = {}
  /\ submitWorkCh = {}
  /\ submitRateCh = {}
  /\ chans = [ch \in ChanIds |-> <<>>]
  /\ pc = [c \in Calls |-> "idle"]
  /\ op = [c \in Calls |-> "none"]
  /\ ret = [c \in Calls |-> [res |-> EmptyWork, err |-> Nil]]
  /\ ok = [c \in Calls |-> FALSE]
  /\ extraNonceStr = [c \in Calls |-> NilStr]
  /\ hr = [c \in Calls |-> 0]
  /\ engineRate = LocalRate
  /\ taken = [fetchWork |-> {}, submitWork |-> {}, submitRate |-> {}]
  /\ offered = {}
  /\ delivered = <<>>
  /\ replied = [c \in Calls |-> NoReply]
  /\ earlyClose = FALSE

\* Mutant: the nil check of the remote handle is missing.
EngineAbsent_Never == FALSE

\* Callers are numbered in the order of their calls: the goroutines are
\* interchangeable, so this loses no behaviour.
CallerTurn(c) == \A d \in Calls : d < c => pc[d] # "idle"

\* if api.ethash.remote == nil
EngineAbsent == ~remote

\* Mutant: the error of hexutil.Decode is ignored.
DecodeFailed_Never(dec) == FALSE

\* if err != nil (the error of hexutil.Decode)
DecodeFailed(dec) == dec.err # Nil

\* ------------------------------------------------------------------ GetWork

\* Mutant: the shutdown branch returns the "not supported" error.
GetWorkStopped_NotSupported == [res |-> EmptyWork, err |-> ErrNotSupported]

\* Mutant: only the first ten fields of the work package are copied.
GetWorkOk_Truncated(work) ==
  [res |-> [i \in 1..WorkLen |-> IF i < WorkLen THEN work[i] ELSE ""],
   err |-> Nil]

\* GetWork's results.
GetWorkNotSupported == [res |-> EmptyWork, err |-> ErrNotSupported]
GetWorkStopped == [res |-> EmptyWork, err |-> errEthashStopped]
GetWorkOk(work) == [res |-> work, err |-> Nil]
GetWorkFailed(err) == [res |-> EmptyWork, err |-> err]

\* The call up to its first select: the nil check, the two make()s, and the
\* goroutine parked on the send.
GetWork(c) ==
  /\ pc[c] = "idle"
  /\ CallerTurn(c)
  /\ op' = [op EXCEPT ![c] = "GetWork"]
  /\ IF EngineAbsent
     THEN /\ pc' = [pc EXCEPT ![c] = "done"]
          /\ ret' = [ret EXCEPT ![c] = GetWorkNotSupported]
          /\ UNCHANGED <<fetchWorkCh, offered>>
     ELSE /\ pc' = [pc EXCEPT ![c] = "send"]
          /\ fetchWorkCh' = fetchWorkCh \cup {<<c, sealWork(c)>>}
          /\ offered' = offered \cup {<<c, "fetchWorkCh">>}
          /\ UNCHANGED ret
  /\ UNCHANGED <<hr, engineRate, extraNonceStr, remote, exitCh, submitWorkCh,
                 submitRateCh, chans, ok, taken, delivered, replied,
                 earlyClose>>

\* Mutant: the select has no shutdown case.
GetWorkExit_Missing(c) ==
  /\ FALSE
  /\ UNCHANGED vars

\* case <-api.ethash.remote.exitCh: return [11]string{}, errEthashStopped
GetWorkExit(c) ==
  /\ pc[c] = "send"
  /\ op[c] = "GetWork"
  /\ exitCh = "closed"
  /\ fetchWorkCh' = {s \in fetchWorkCh : s[1] # c}
  /\ pc' = [pc EXCEPT ![c] = "done"]
  /\ ret' = [ret EXCEPT ![c] = GetWorkStopped]
  /\ UNCHANGED <<hr, engineRate, extraNonceStr, remote, exitCh, submitWorkCh,
                 submitRateCh, chans, op, ok, taken, offered, delivered,
                 replied, earlyClose>>

\* Mutant: the reply wait also has a shutdown case.
GetWorkRecvWork_OrExit(c) ==
  /\ pc[c] = "wait"
  /\ op[c] = "GetWork"
  /\ \/ /\ Ready(MakeChan(c, "workCh"))
        /\ ret' = [ret EXCEPT ![c] =
                     GetWorkOk(Head(chans[MakeChan(c, "workCh")]))]
        /\ chans' = Recv(MakeChan(c, "workCh"))
     \/ /\ exitCh = "closed"
        /\ ret' = [ret EXCEPT ![c] = GetWorkStopped]
        /\ UNCHANGED chans
  /\ pc' = [pc EXCEPT ![c] = "done"]
  /\ UNCHANGED <<hr, engineRate, extraNonceStr, remote, exitCh, fetchWorkCh,
                 submitWorkCh, submitRateCh, op, ok, taken, offered,
                 delivered, replied, earlyClose>>

\* case work := <-workCh: return work, nil
GetWorkRecvWork(c) ==
  /\ pc[c] = "wait"
  /\ op[c] = "GetWork"
  /\ Ready(MakeChan(c, "workCh"))
  /\ ret' = [ret EXCEPT ![c] = GetWorkOk(Head(chans[MakeChan(c, "workCh")]))]
  /\ chans' = Recv(MakeChan(c, "workCh"))
  /\ pc' = [pc EXCEPT ![c] = "done"]
  /\ UNCHANGED <<hr, engineRate, extraNonceStr, remote, exitCh, fetchWorkCh,
                 submitWorkCh, submitRateCh, op, ok, taken, offered, delivered,
                 replied, earlyClose>>

\* Mutant: an error reply makes the call send its request again.
GetWorkRecvErr_Retry(c) ==
  /\ pc[c] = "wait"
  /\ op[c] = "GetWork"
  /\ Ready(MakeChan(c, "errc"))
  /\ chans' = Recv(MakeChan(c, "errc"))
  /\ fetchWorkCh' = fetchWorkCh \cup {<<c, sealWork(c)>>}
  /\ pc' = [pc EXCEPT ![c] = "send"]
  /\ UNCHANGED <<hr, engineRate, extraNonceStr, remote, exitCh, submitWorkCh,
                 submitRateCh, op, ret, ok, taken, offered, delivered,
                 replied, earlyClose>>

\* case err := <-errc: return [11]string{}, err
GetWorkRecvErr(c) ==
  /\ pc[c] = "wait"
  /\ op[c] = "GetWork"
  /\ Ready(MakeChan(c, "errc"))
  /\ ret' = [ret EXCEPT ![c] = GetWorkFailed(Head(chans[MakeChan(c, "errc")]))]
  /\ chans' = Recv(MakeChan(c, "errc"))
  /\ pc' = [pc EXCEPT ![c] = "done"]
  /\ UNCHANGED <<hr, engineRate, extraNonceStr, remote, exitCh, fetchWorkCh,
                 submitWorkCh, submitRateCh, op, ok, taken, offered, delivered,
                 replied, earlyClose>>

\* ------------------------------------------------------------------ SubmitWork

\* Mutant: the comparison is inverted.
SubmitWorkResult_Inverted(err) == err # Nil

\* return err == nil
SubmitWorkResult(err) == err = Nil

\* The call up to its select: the nil check, the decoding of the extra nonce,
\* the make() and the goroutine parked on the send.
SubmitWork(c, nonce, hash, digest, str) ==
  /\ pc[c] = "idle"
  /\ CallerTurn(c)
  /\ op' = [op EXCEPT ![c] = "SubmitWork"]
  /\ extraNonceStr' = [extraNonceStr EXCEPT ![c] = str]
  /\ LET dec == IF str.isNil
                THEN [bytes |-> <<>>, err |-> Nil]
                ELSE Decode(str.val)
     IN IF EngineAbsent \/ DecodeFailed(dec)
        THEN /\ pc' = [pc EXCEPT ![c] = "done"]
             /\ ok' = [ok EXCEPT ![c] = FALSE]
             /\ UNCHANGED <<submitWorkCh, offered>>
        ELSE /\ pc' = [pc EXCEPT ![c] = "send"]
             /\ submitWorkCh' = submitWorkCh \cup
                  {<<c, mineResult(c, nonce, hash, digest, dec.bytes)>>}
             /\ offered' = offered \cup {<<c, "submitWorkCh">>}
             /\ UNCHANGED ok
  /\ UNCHANGED <<hr, engineRate, remote, exitCh, fetchWorkCh, submitRateCh,
                 chans, ret, taken, delivered, replied, earlyClose>>

\* Mutant: the call returns through the shutdown branch although its send
\* also went through.
SubmitWorkExit_AlsoSends(c) ==
  /\ pc[c] = "send"
  /\ op[c] = "SubmitWork"
  /\ exitCh = "closed"
  /\ \E s \in submitWorkCh :
       /\ s[1] = c
       /\ submitWorkCh' = submitWorkCh \ {s}
       /\ taken' = [taken EXCEPT !.submitWork = @ \cup {s}]
  /\ delivered' = Append(delivered, <<c, "submitWorkCh">>)
  /\ pc' = [pc EXCEPT ![c] = "done"]
  /\ ok' = [ok EXCEPT ![c] = FALSE]
  /\ UNCHANGED <<hr, engineRate, extraNonceStr, remote, exitCh, fetchWorkCh,
                 submitRateCh, chans, op, ret, offered, replied, earlyClose>>

\* Mutant: the shutdown branch reports the solution as accepted.
SubmitWorkExit_True(c) ==
  /\ pc[c] = "send"
  /\ op[c] = "SubmitWork"
  /\ exitCh = "closed"
  /\ submitWorkCh' = {s \in submitWorkCh : s[1] # c}
  /\ pc' = [pc EXCEPT ![c] = "done"]
  /\ ok' = [ok EXCEPT ![c] = TRUE]
  /\ UNCHANGED <<hr, engineRate, extraNonceStr, remote, exitCh, fetchWorkCh,
                 submitRateCh, chans, op, ret, taken, offered, delivered,
                 replied, earlyClose>>

\* case <-api.ethash.remote.exitCh: return false
SubmitWorkExit(c) ==
  /\ pc[c] = "send"
  /\ op[c] = "SubmitWork"
  /\ exitCh = "closed"
  /\ submitWorkCh' = {s \in submitWorkCh : s[1] # c}
  /\ pc' = [pc EXCEPT ![c] = "done"]
  /\ ok' = [ok EXCEPT ![c] = FALSE]
  /\ UNCHANGED <<hr, engineRate, extraNonceStr, remote, exitCh, fetchWorkCh,
                 submitRateCh, chans, op, ret, taken, offered, delivered,
                 replied, earlyClose>>

\* Mutant: the call closes the shutdown signal when it returns.
SubmitWorkRecv_ClosesExit(c) ==
  /\ pc[c] = "wait"
  /\ op[c] = "SubmitWork"
  /\ Ready(MakeChan(c, "errc"))
  /\ ok' = [ok EXCEPT ![c] = SubmitWorkResult(Head(chans[MakeChan(c, "errc")]))]
  /\ chans' = Recv(MakeChan(c, "errc"))
  /\ pc' = [pc EXCEPT ![c] = "done"]
  /\ exitCh' = "closed"
  /\ UNCHANGED <<hr, engineRate, extraNonceStr, remote, fetchWorkCh,
                 submitWorkCh, submitRateCh, op, ret, taken, offered,
                 delivered, replied, earlyClose>>

\* err := <-errc; return err == nil
SubmitWorkRecv(c) ==
  /\ pc[c] = "wait"
  /\ op[c] = "SubmitWork"
  /\ Ready(MakeChan(c, "errc"))
  /\ ok' = [ok EXCEPT ![c] = SubmitWorkResult(Head(chans[MakeChan(c, "errc")]))]
  /\ chans' = Recv(MakeChan(c, "errc"))
  /\ pc' = [pc EXCEPT ![c] = "done"]
  /\ UNCHANGED <<hr, engineRate, extraNonceStr, remote, exitCh, fetchWorkCh,
                 submitWorkCh, submitRateCh, op, ret, taken, offered,
                 delivered, replied, earlyClose>>

\* ------------------------------------------------------------------ SubmitHashrate

\* The call up to its select.
SubmitHashrate(c, rate, id) ==
  /\ pc[c] = "idle"
  /\ CallerTurn(c)
  /\ op' = [op EXCEPT ![c] = "SubmitHashrate"]
  /\ IF EngineAbsent
     THEN /\ pc' = [pc EXCEPT ![c] = "done"]
          /\ ok' = [ok EXCEPT ![c] = FALSE]
          /\ UNCHANGED <<submitRateCh, offered>>
     ELSE /\ pc' = [pc EXCEPT ![c] = "send"]
          /\ submitRateCh' = submitRateCh \cup {<<c, hashrate(c, rate, id)>>}
          /\ offered' = offered \cup {<<c, "submitRateCh">>}
          /\ UNCHANGED ok
  /\ UNCHANGED <<hr, engineRate, extraNonceStr, remote, exitCh, fetchWorkCh,
                 submitWorkCh, chans, ret, taken, delivered, replied,
                 earlyClose>>

\* Mutant: the select has a default case that returns false.
SubmitHashrateExit_Default(c) ==
  /\ pc[c] = "send"
  /\ op[c] = "SubmitHashrate"
  /\ submitRateCh' = {s \in submitRateCh : s[1] # c}
  /\ pc' = [pc EXCEPT ![c] = "done"]
  /\ ok' = [ok EXCEPT ![c] = FALSE]
  /\ UNCHANGED <<hr, engineRate, extraNonceStr, remote, exitCh, fetchWorkCh,
                 submitWorkCh, chans, op, ret, taken, offered, delivered,
                 replied, earlyClose>>

\* case <-api.ethash.remote.exitCh: return false
SubmitHashrateExit(c) ==
  /\ pc[c] = "send"
  /\ op[c] = "SubmitHashrate"
  /\ exitCh = "closed"
  /\ submitRateCh' = {s \in submitRateCh : s[1] # c}
  /\ pc' = [pc EXCEPT ![c] = "done"]
  /\ ok' = [ok EXCEPT ![c] = FALSE]
  /\ UNCHANGED <<hr, engineRate, extraNonceStr, remote, exitCh, fetchWorkCh,
                 submitWorkCh, chans, op, ret, taken, offered, delivered,
                 replied, earlyClose>>

\* Mutant: the call returns true without waiting for the completion signal.
SubmitHashrateRecv_NoWait(c) ==
  /\ pc[c] = "wait"
  /\ op[c] = "SubmitHashrate"
  /\ ok' = [ok EXCEPT ![c] = TRUE]
  /\ pc' = [pc EXCEPT ![c] = "done"]
  /\ UNCHANGED <<hr, engineRate, extraNonceStr, remote, exitCh, fetchWorkCh,
                 submitWorkCh, submitRateCh, chans, op, ret, taken, offered,
                 delivered, replied, earlyClose>>

\* <-done; return true
SubmitHashrateRecv(c) ==
  /\ pc[c] = "wait"
  /\ op[c] = "SubmitHashrate"
  /\ Ready(MakeChan(c, "done"))
  /\ ok' = [ok EXCEPT ![c] = TRUE]
  /\ chans' = Recv(MakeChan(c, "done"))
  /\ pc' = [pc EXCEPT ![c] = "done"]
  /\ UNCHANGED <<hr, engineRate, extraNonceStr, remote, exitCh, fetchWorkCh,
                 submitWorkCh, submitRateCh, op, ret, taken, offered,
                 delivered, replied, earlyClose>>

\* ------------------------------------------------------------------ GetHashrate

\* api.ethash.Hashrate(): the engine's aggregate hash rate, a float64.
Hashrate == engineRate

\* uint64(f) of a non-negative float64: the fraction is dropped.
Uint64OfFloat(f) == f \div 10

\* Mutant: GetHashrate checks the remote handle like the other operations and
\* reports 0 without an engine.
GetHashrate_NilCheck(c) ==
  /\ pc[c] = "idle"
  /\ CallerTurn(c)
  /\ op' = [op EXCEPT ![c] = "GetHashrate"]
  /\ pc' = [pc EXCEPT ![c] = "done"]
  /\ hr' = [hr EXCEPT ![c] = IF EngineAbsent THEN 0
                             ELSE Uint64OfFloat(Hashrate)]
  /\ UNCHANGED <<engineRate, extraNonceStr, remote, exitCh, fetchWorkCh,
                 submitWorkCh, submitRateCh, chans, ret, ok, taken, offered,
                 delivered, replied, earlyClose>>

\* return uint64(api.ethash.Hashrate())
GetHashrate(c) ==
  /\ pc[c] = "idle"
  /\ CallerTurn(c)
  /\ op' = [op EXCEPT ![c] = "GetHashrate"]
  /\ pc' = [pc EXCEPT ![c] = "done"]
  /\ hr' = [hr EXCEPT ![c] = Uint64OfFloat(Hashrate)]
  /\ UNCHANGED <<engineRate, extraNonceStr, remote, exitCh, fetchWorkCh,
                 submitWorkCh, submitRateCh, chans, ret, ok, taken, offered,
                 delivered, replied, earlyClose>>

\* ------------------------------------------------------------------ engine

\* The worker loop runs until the engine stops; the shutdown signal is closed
\* when it has stopped.
WorkerRunning == remote /\ exitCh = "open"

\* The worker receives a work request: the sender's select completes its send.
WorkerFetchWork(c) ==
  /\ WorkerRunning
  /\ \E s \in fetchWorkCh :
       /\ s[1] = c
       /\ fetchWorkCh' = fetchWorkCh \ {s}
       /\ taken' = [taken EXCEPT !.fetchWork = @ \cup {s}]
  /\ pc' = [pc EXCEPT ![c] = "wait"]
  /\ delivered' = Append(delivered, <<c, "fetchWorkCh">>)
  /\ UNCHANGED <<hr, engineRate, extraNonceStr, remote, exitCh, submitWorkCh,
                 submitRateCh, chans, op, ret, ok, offered, replied,
                 earlyClose>>

\* The worker receives a submitted solution.
WorkerSubmitWork(c) ==
  /\ WorkerRunning
  /\ \E s \in submitWorkCh :
       /\ s[1] = c
       /\ submitWorkCh' = submitWorkCh \ {s}
       /\ taken' = [taken EXCEPT !.submitWork = @ \cup {s}]
  /\ pc' = [pc EXCEPT ![c] = "wait"]
  /\ delivered' = Append(delivered, <<c, "submitWorkCh">>)
  /\ UNCHANGED <<hr, engineRate, extraNonceStr, remote, exitCh, fetchWorkCh,
                 submitRateCh, chans, op, ret, ok, offered, replied,
                 earlyClose>>

\* The worker receives a hash-rate report.
WorkerSubmitRate(c) ==
  /\ WorkerRunning
  /\ \E s \in submitRateCh :
       /\ s[1] = c
       /\ submitRateCh' = submitRateCh \ {s}
       /\ taken' = [taken EXCEPT !.submitRate = @ \cup {s}]
  /\ pc' = [pc EXCEPT ![c] = "wait"]
  /\ delivered' = Append(delivered, <<c, "submitRateCh">>)
  /\ UNCHANGED <<hr, engineRate, extraNonceStr, remote, exitCh, fetchWorkCh,
                 submitWorkCh, chans, op, ret, ok, offered, replied,
                 earlyClose>>

\* The worker answers a work request with a work package.
WorkerReplyWork(s, work) ==
  /\ WorkerRunning
  /\ s \in taken.fetchWork
  /\ HasRoom(s[2].res)
  /\ chans' = Send(s[2].res, work)
  /\ taken' = [taken EXCEPT !.fetchWork = @ \ {s}]
  /\ replied' = [replied EXCEPT ![s[1]] =
                   [kind |-> "res", val |-> Nil, work |-> work]]
  /\ UNCHANGED <<hr, engineRate, extraNonceStr, remote, exitCh, fetchWorkCh,
                 submitWorkCh, submitRateCh, pc, op, ret, ok, offered,
                 delivered, earlyClose>>

\* The worker answers a work request with an error.
WorkerReplyWorkErr(s, err) ==
  /\ WorkerRunning
  /\ s \in taken.fetchWork
  /\ HasRoom(s[2].errc)
  /\ chans' = Send(s[2].errc, err)
  /\ taken' = [taken EXCEPT !.fetchWork = @ \ {s}]
  /\ replied' = [replied EXCEPT ![s[1]] =
                   [kind |-> "err", val |-> err, work |-> EmptyWork]]
  /\ UNCHANGED <<hr, engineRate, extraNonceStr, remote, exitCh, fetchWorkCh,
                 submitWorkCh, submitRateCh, pc, op, ret, ok, offered,
                 delivered, earlyClose>>

\* The worker answers a submitted solution: nil, or an error.
WorkerReplySubmit(s, err) ==
  /\ WorkerRunning
  /\ s \in taken.submitWork
  /\ HasRoom(s[2].errc)
  /\ chans' = Send(s[2].errc, err)
  /\ taken' = [taken EXCEPT !.submitWork = @ \ {s}]
  /\ replied' = [replied EXCEPT ![s[1]] =
                   [kind |-> "err", val |-> err, work |-> EmptyWork]]
  /\ UNCHANGED <<hr, engineRate, extraNonceStr, remote, exitCh, fetchWorkCh,
                 submitWorkCh, submitRateCh, pc, op, ret, ok, offered,
                 delivered, earlyClose>>

\* The worker signals the completion of a hash-rate report.
WorkerReplyRate(s) ==
  /\ WorkerRunning
  /\ s \in taken.submitRate
  /\ HasRoom(s[2].done)
  /\ chans' = Send(s[2].done, Signal)
  /\ taken' = [taken EXCEPT !.submitRate = @ \ {s}]
  /\ replied' = [replied EXCEPT ![s[1]] =
                   [kind |-> "done", val |-> Nil, work |-> EmptyWork]]
  /\ engineRate' = engineRate + RateTenths(s[2].rate)
  /\ UNCHANGED <<hr, extraNonceStr, remote, exitCh, fetchWorkCh, submitWorkCh,
                 submitRateCh, pc, op, ret, ok, offered, delivered,
                 earlyClose>>

\* The engine stops: the worker loop ends and the shutdown signal is closed.
Shutdown ==
  /\ WorkerRunning
  /\ exitCh' = "closed"
  /\ earlyClose' = (\A c \in Calls : pc[c] = "idle")
  /\ UNCHANGED <<hr, engineRate, extraNonceStr, remote, fetchWorkCh,
                 submitWorkCh, submitRateCh, chans, pc, op, ret, ok, taken,
                 offered, delivered, replied>>

\* ------------------------------------------------------------------ Next

\* A caller starts a call.
Call(c) ==
  \/ GetWork(c)
  \/ \E nonce \in Nonces, hash \in Hashes, digest \in Digests,
        str \in ExtraNonceArgs :
       SubmitWork(c, nonce, hash, digest, str)
  \/ \E rate \in Rates, id \in Ids : SubmitHashrate(c, rate, id)
  \/ GetHashrate(c)

\* A started call takes the shutdown branch of its select.
CallExit(c) ==
  \/ GetWorkExit(c)
  \/ SubmitWorkExit(c)
  \/ SubmitHashrateExit(c)

\* A started call takes its reply.
CallRecv(c) ==
  \/ GetWorkRecvWork(c)
  \/ GetWorkRecvErr(c)
  \/ SubmitWorkRecv(c)
  \/ SubmitHashrateRecv(c)

\* The worker takes a message off an intake channel.
WorkerTake(c) ==
  \/ WorkerFetchWork(c)
  \/ WorkerSubmitWork(c)
  \/ WorkerSubmitRate(c)

\* The worker answers a message it has taken.
WorkerReply ==
  \/ \E s \in taken.fetchWork :
       \/ \E work \in WorkPackages : WorkerReplyWork(s, work)
       \/ \E err \in FetchErrors : WorkerReplyWorkErr(s, err)
  \/ \E s \in taken.submitWork, err \in {Nil} \cup SubmitErrors :
       WorkerReplySubmit(s, err)
  \/ \E s \in taken.submitRate : WorkerReplyRate(s)

Next ==
  \/ \E c \in Calls : Call(c)
  \/ \E c \in Calls : CallExit(c)
  \/ \E c \in Calls : CallRecv(c)
  \/ \E c \in Calls : WorkerTake(c)
  \/ WorkerReply
  \/ Shutdown

Spec == Init /\ [][Next]_vars

\* The scheduler runs every runnable goroutine: a call whose select has a ready
\* shutdown branch or whose reply channel holds a value proceeds.  The worker,
\* while it runs, takes the messages offered to it and answers those it took.
FairSpec ==
  /\ Spec
  /\ \A c \in Calls : WF_vars(CallExit(c)) /\ WF_vars(CallRecv(c))
  /\ \A c \in Calls : WF_vars(WorkerTake(c))
  /\ WF_vars(WorkerReply)

\* ------------------------------------------------------------------ properties

\* The worker received the message of call c.
Delivered(c) == \E i \in 1..Len(delivered) : delivered[i][1] = c

\* Call c offered a message on an intake channel.
Offered(c) == \E o \in offered : o[1] = c

\* Call c has returned.
Returned(c) == pc[c] = "done"

\* The worker took the message of call c and has not answered it.
Unanswered(c) == Delivered(c) /\ replied[c].kind = "none"

\* No message of call c is, or ever was, on a channel.
NoMessage(c) ==
  /\ ~Offered(c)
  /\ ~Delivered(c)
  /\ \A s \in fetchWorkCh \cup submitWorkCh \cup submitRateCh : s[1] # c
  /\ \A s \in taken.fetchWork \cup taken.submitWork \cup taken.submitRate :
       s[1] # c

\* The empty 11-field result.
Empty11 == <<"", "", "", "", "", "", "", "", "", "", "">>

\* C1: with no remote engine every GetWork call returns an empty 11-field
\* result with a failure, every SubmitWork and SubmitHashrate call returns
\* false, and no message is ever offered or delivered on an intake channel.
C1_NoEngineFailsFast ==
  ~remote =>
    /\ \A c \in Calls :
         /\ pc[c] \in {"idle", "done"}
         /\ NoMessage(c)
         /\ (Returned(c) /\ op[c] = "GetWork") =>
              (ret[c].res = Empty11 /\ ret[c].err # Nil)
         /\ (Returned(c) /\ op[c] \in {"SubmitWork", "SubmitHashrate"}) =>
              ok[c] = FALSE
    /\ offered = {}
    /\ delivered = <<>>

\* C1 witness: without an engine, a GetWork call and a submission have both
\* returned.
C1_Witness ==
  /\ ~remote
  /\ \A c \in Calls : Returned(c)
  /\ \E c \in Calls : op[c] = "GetWork" /\ ret[c].err = "not supported"
  /\ \E c \in Calls : op[c] \in {"SubmitWork", "SubmitHashrate"} /\ ~ok[c]

\* C2: a call that leaves its send step either had its message taken by the
\* worker, or the shutdown signal is closed, its message is never taken, and it
\* returns the failure value: GetWork the empty result with "ethash stopped",
\* SubmitWork and SubmitHashrate false.
C2_ShutdownBeforeSend ==
  [][\A c \in Calls :
       (pc[c] = "send" /\ pc'[c] # "send") =>
         \/ pc'[c] = "wait" /\ Delivered(c)'
         \/ /\ exitCh = "closed"
            /\ pc'[c] = "done"
            /\ ~Delivered(c)'
            /\ op[c] = "GetWork" =>
                 (ret'[c].res = Empty11 /\ ret'[c].err = "ethash stopped")
            /\ op[c] \in {"SubmitWork", "SubmitHashrate"} => ok'[c] = FALSE]_vars

\* C2 witness: two calls of different operations, started before the shutdown,
\* have both returned through the shutdown branch.
C2_Witness ==
  /\ exitCh = "closed"
  /\ ~earlyClose
  /\ \E c, d \in Calls :
       /\ op[c] = "GetWork" /\ op[d] \in {"SubmitWork", "SubmitHashrate"}
       /\ Returned(c) /\ Returned(d)
       /\ Offered(c) /\ Offered(d)
       /\ ~Delivered(c) /\ ~Delivered(d)
       /\ ret[c].err = "ethash stopped"
       /\ ~ok[d]

\* C3 as stated: once the shutdown signal is closed, every started call
\* eventually returns.
C3_EveryCallReturnsAfterShutdown ==
  \A c \in Calls :
    (exitCh = "closed" /\ pc[c] # "idle") ~> Returned(c)

\* C3 amended: once the shutdown signal is closed, every started call
\* eventually returns, unless the worker took its message and stopped before
\* answering it.
C3_UndeliveredCallReturnsAfterShutdown ==
  \A c \in Calls :
    (exitCh = "closed" /\ pc[c] # "idle" /\ ~Unanswered(c)) ~> Returned(c)

\* C3 witness: after the shutdown one call has returned through the shutdown
\* branch while another, whose message the worker took, is left waiting.
C3_Witness ==
  /\ exitCh = "closed"
  /\ \E c, d \in Calls :
       /\ Returned(c) /\ Offered(c) /\ ~Delivered(c)
       /\ pc[d] = "wait" /\ Unanswered(d)

\* C4: when the shutdown signal is closed before any call is made, no message
\* is ever taken, every GetWork call returns "ethash stopped" with an empty
\* result, every SubmitWork and SubmitHashrate call returns false, and every
\* started call returns.
C4_ClosedBeforeAnyCall ==
  /\ [](earlyClose =>
          \A c \in Calls :
            /\ ~Delivered(c)
            /\ (Returned(c) /\ op[c] = "GetWork") =>
                 (ret[c].res = Empty11 /\ ret[c].err = "ethash stopped")
            /\ (Returned(c) /\ op[c] \in {"SubmitWork", "SubmitHashrate"}) =>
                 ok[c] = FALSE)
  /\ \A c \in Calls : (earlyClose /\ pc[c] # "idle") ~> Returned(c)

\* C4 witness: the signal was closed first, and a GetWork call and a
\* submission whose message was offered have both returned.
C4_Witness ==
  /\ earlyClose
  /\ \E c, d \in Calls :
       /\ op[c] = "GetWork" /\ Returned(c) /\ ret[c].err = "ethash stopped"
       /\ op[d] \in {"SubmitWork", "SubmitHashrate"} /\ Returned(d)
       /\ Offered(d) /\ ~ok[d]

\* C5: a GetWork call whose message was delivered returns the reply the worker
\* wrote for that call's own request, whatever the order of the replies.
C5_OwnReplyOnly ==
  \A c \in Calls :
    (op[c] = "GetWork" /\ Returned(c) /\ Delivered(c)) =>
      \/ /\ replied[c].kind = "res"
         /\ ret[c].res = replied[c].work
         /\ ret[c].err = Nil
      \/ /\ replied[c].kind = "err"
         /\ ret[c].res = Empty11
         /\ ret[c].err = replied[c].val

\* C5 witness: two GetWork requests were delivered, the worker answered the
\* later one first, and that call returned its own work package while the
\* earlier one still waits.
C5_Witness ==
  \E c, d \in Calls :
    /\ op[c] = "GetWork" /\ op[d] = "GetWork"
    /\ Len(delivered) = 2 /\ delivered[1][1] = c /\ delivered[2][1] = d
    /\ pc[c] = "wait" /\ Unanswered(c)
    /\ Returned(d) /\ replied[d].kind = "res" /\ ret[d].res = replied[d].work

\* C6: a SubmitWork call whose message was delivered returns true exactly when
\* the worker replied with no error, and false for every error.
C6_SubmitWorkBoolean ==
  \A c \in Calls :
    (op[c] = "SubmitWork" /\ Returned(c) /\ Delivered(c)) =>
      /\ replied[c].kind = "err"
      /\ ok[c] = (replied[c].val = Nil)
      /\ replied[c].val \in SubmitErrors => ok[c] = FALSE

\* C6 witness: one SubmitWork call was accepted and another, with a decoded
\* extra nonce, was refused as stale work.
C6_Witness ==
  \E c, d \in Calls :
    /\ op[c] = "SubmitWork" /\ Returned(c) /\ replied[c].val = Nil /\ ok[c]
    /\ op[d] = "SubmitWork" /\ Returned(d) /\ ~extraNonceStr[d].isNil
    /\ replied[d].val = "stale work" /\ ~ok[d]

\* A text hexutil.Decode accepts: "0x" or "0X" and an even number of hex digits.
WellFormedHex(s) ==
  /\ Len(s) >= 2
  /\ s[1] = "0"
  /\ s[2] \in {"x", "X"}
  /\ (Len(s) - 2) % 2 = 0
  /\ \A i \in 3..Len(s) :
       s[i] \in {"0", "1", "2", "3", "4", "5", "6", "7", "8", "9", "a", "b",
                 "c", "d", "e", "f", "A", "B", "C", "D", "E", "F"}

\* Call c is a SubmitWork call whose extra-nonce text does not decode.
BadExtraNonce(c) ==
  /\ op[c] = "SubmitWork"
  /\ ~extraNonceStr[c].isNil
  /\ ~WellFormedHex(extraNonceStr[c].val)

\* C7: a SubmitWork call whose extra-nonce text does not decode has returned
\* false and no message of it is or ever was on any channel.
C7_BadExtraNonceSendsNothing ==
  \A c \in Calls :
    BadExtraNonce(c) => (Returned(c) /\ ok[c] = FALSE /\ NoMessage(c))

\* C7 witness: with an engine configured and running, and another call in
\* flight, a SubmitWork call with an undecodable extra nonce has returned.
C7_Witness ==
  /\ remote
  /\ \E c \in Calls : BadExtraNonce(c) /\ Returned(c)
  /\ exitCh = "open"
  /\ \E d \in Calls : pc[d] = "wait"

\* C8: a SubmitHashrate call has returned true exactly when the worker wrote
\* the completion signal of its own report; after its message is taken it
\* stays blocked until that signal is written and never returns false; and
\* once the signal is written the call returns true.
C8_SubmitHashrateCompletion ==
  /\ [](\A c \in Calls :
          (op[c] = "SubmitHashrate" /\ Returned(c)) =>
            /\ ok[c] <=> replied[c].kind = "done"
            /\ Delivered(c) => ok[c])
  /\ [][\A c \in Calls :
          (op[c] = "SubmitHashrate" /\ pc[c] = "wait" /\ Unanswered(c)) =>
            (pc'[c] = "wait" \/ ~Unanswered(c)')]_vars
  /\ \A c \in Calls :
       (op[c] = "SubmitHashrate" /\ replied[c].kind = "done")
         ~> (Returned(c) /\ ok[c])

\* C8 witness: a SubmitHashrate call returned true after the worker signalled
\* completion, while another one was refused at the send step.
C8_Witness ==
  \E c, d \in Calls :
    /\ op[c] = "SubmitHashrate" /\ Returned(c) /\ ok[c]
    /\ replied[c].kind = "done"
    /\ op[d] = "SubmitHashrate" /\ Returned(d) /\ ~ok[d] /\ Offered(d)

\* C9: when the worker answers a GetWork request with a work package, the call
\* returns that package, all 11 fields in order, and no error.
C9_WorkPackageUnmodified ==
  \A c \in Calls :
    (op[c] = "GetWork" /\ Returned(c) /\ replied[c].kind = "res") =>
      /\ ret[c].err = Nil
      /\ Len(ret[c].res) = 11
      /\ \A i \in 1..11 : ret[c].res[i] = replied[c].work[i]

\* C9 witness: two GetWork calls have returned two different work packages.
C9_Witness ==
  \E c, d \in Calls :
    /\ op[c] = "GetWork" /\ Returned(c) /\ ret[c].res \in WorkPackages
    /\ op[d] = "GetWork" /\ Returned(d) /\ ret[d].res \in WorkPackages
    /\ ret[c].res # ret[d].res

\* The cause of a returned GetWork call's outcome.
Cause(c) ==
  IF ~remote THEN "unsupported"
  ELSE IF ~Delivered(c) THEN "stopped"
  ELSE IF replied[c].kind = "err" THEN "worker error"
  ELSE "work"

\* C10: a returned GetWork call reports "not supported" when there is no
\* engine, "ethash stopped" when shutdown won the send race, and the worker's
\* own error value when the worker answered with an error, each with an empty
\* result; calls that failed for different causes return different errors.
C10_GetWorkFailureCauses ==
  /\ \A c \in Calls :
       (op[c] = "GetWork" /\ Returned(c)) =>
         /\ Cause(c) = "unsupported" =>
              (ret[c].err = "not supported" /\ ret[c].res = Empty11)
         /\ Cause(c) = "stopped" =>
              (ret[c].err = "ethash stopped" /\ ret[c].res = Empty11)
         /\ Cause(c) = "worker error" =>
              (ret[c].err = replied[c].val /\ ret[c].res = Empty11)
         /\ Cause(c) # "work" => ret[c].err # Nil
  /\ \A c, d \in Calls :
       (/\ op[c] = "GetWork" /\ Returned(c)
        /\ op[d] = "GetWork" /\ Returned(d)
        /\ Cause(c) # Cause(d)) => ret[c].err # ret[d].err

\* C10 witness: one GetWork call returned the worker's error and another
\* returned "ethash stopped".
C10_Witness ==
  \E c, d \in Calls :
    /\ op[c] = "GetWork" /\ Returned(c) /\ Cause(c) = "worker error"
    /\ ret[c].err \in FetchErrors
    /\ op[d] = "GetWork" /\ Returned(d) /\ Cause(d) = "stopped"

\* The state of call d is the same before and after the step.
SameCall(d) ==
  /\ pc'[d] = pc[d]
  /\ op'[d] = op[d]
  /\ ret'[d] = ret[d]
  /\ ok'[d] = ok[d]
  /\ hr'[d] = hr[d]

\* C11: a GetHashrate call returns in its one step, whether or not an engine
\* is configured and whether or not shutdown was signalled: it offers no
\* message, takes nothing from the shutdown signal or a reply channel, leaves
\* every channel, the worker and every other call as they were, and returns
\* the engine's aggregate hash rate (as an unsigned integer: its whole part).
C11_GetHashratePassthrough ==
  [][\A c \in Calls :
       (pc[c] = "idle" /\ op'[c] = "GetHashrate") =>
         /\ pc'[c] = "done"
         /\ hr'[c] * 10 <= engineRate
         /\ engineRate < (hr'[c] + 1) * 10
         /\ UNCHANGED <<remote, exitCh, fetchWorkCh, submitWorkCh,
                        submitRateCh, chans, taken, offered, delivered,
                        replied, engineRate>>
         /\ \A d \in Calls \ {c} : SameCall(d)]_vars

\* C11 witness: after a hash-rate report was accepted and the engine was shut
\* down, a GetHashrate call has returned the local rate plus the reported one.
C11_Witness ==
  /\ exitCh = "closed"
  /\ \E c, d \in Calls :
       /\ op[c] = "SubmitHashrate" /\ Returned(c) /\ ok[c]
       /\ op[d] = "GetHashrate" /\ Returned(d) /\ hr[d] = 2500
       /\ ~Offered(d)

\* A value leaves one of the reply channels call c made.
TakesOwnReply(c) ==
  \E k \in ChanKinds : Len(chans'[<<c, k>>]) < Len(chans[<<c, k>>])

\* C12: after its message was handed to the worker a call returns only by
\* taking a reply the worker wrote on the call's own reply channel; the
\* closing of the shutdown signal does not make it return, and with the
\* signal closed and no reply written the call stays at its reply wait.
C12_NoCancellationAfterSend ==
  [][\A c \in Calls :
       /\ (pc[c] = "wait" /\ pc'[c] # "wait") =>
            (pc'[c] = "done" /\ replied[c].kind # "none" /\ TakesOwnReply(c))
       /\ (pc[c] = "wait" /\ exitCh' # exitCh) => pc'[c] = "wait"
       /\ (pc[c] = "wait" /\ Unanswered(c) /\ exitCh = "closed") =>
            (pc'[c] = "wait" /\ Unanswered(c)')]_vars

\* C12 witness: the engine stopped after taking a work request and a
\* submission and before answering them; both calls are at their reply wait.
C12_Witness ==
  /\ exitCh = "closed"
  /\ \E c, d \in Calls :
       /\ op[c] = "GetWork" /\ pc[c] = "wait" /\ Unanswered(c)
       /\ op[d] \in {"SubmitWork", "SubmitHashrate"}
       /\ pc[d] = "wait" /\ Unanswered(d)

\* The intake channel of each operation.
IntakeOf(o) ==
  CASE o = "GetWork" -> "fetchWorkCh"
    [] o = "SubmitWork" -> "submitWorkCh"
    [] o = "SubmitHashrate" -> "submitRateCh"
    [] OTHER -> "none"

\* The deliveries of call c, as positions of the delivery history.
Deliveries(c) == {i \in 1..Len(delivered) : delivered[i][1] = c}

\* Call c has a message parked on some intake channel.
Parked(c) ==
  \E s \in fetchWorkCh \cup submitWorkCh \cup submitRateCh : s[1] = c

\* C13: a call delivers at most one message, on the intake channel of its own
\* operation; it parks a message only when it starts, never goes back to its
\* send step, and once it has returned it stays returned with the same result
\* and no message parked.
C13_NeverRetries ==
  /\ [](\A c \in Calls :
          /\ Cardinality(Deliveries(c)) <= 1
          /\ \A i \in Deliveries(c) : delivered[i][2] = IntakeOf(op[c])
          /\ \A o \in offered : o[1] = c => o[2] = IntakeOf(op[c])
          /\ Parked(c) => pc[c] = "send")
  /\ [][\A c \in Calls :
          /\ (pc'[c] = "send" /\ pc[c] # "send") => pc[c] = "idle"
          /\ (Parked(c)' /\ ~Parked(c)) => pc[c] = "idle"
          /\ pc[c] = "wait" => pc'[c] \in {"wait", "done"}
          /\ Returned(c) =>
               /\ Returned(c)'
               /\ ret'[c] = ret[c] /\ ok'[c] = ok[c] /\ op'[c] = op[c]
               /\ Deliveries(c)' = Deliveries(c)]_vars

\* C13 witness: a GetWork call and a SubmitWork call were each answered with
\* an error, each returned its failure, and each delivered one message only.
C13_Witness ==
  \E c, d \in Calls :
    /\ op[c] = "GetWork" /\ Returned(c)
    /\ replied[c].kind = "err" /\ ret[c].err = replied[c].val
    /\ Cardinality(Deliveries(c)) = 1
    /\ op[d] = "SubmitWork" /\ Returned(d)
    /\ replied[d].val \in SubmitErrors /\ ~ok[d]
    /\ Cardinality(Deliveries(d)) = 1
    /\ ~Parked(c) /\ ~Parked(d)

\* The messages parked on an intake channel or held by the worker, each as
\* <<sending call, set of reply channels it carries>>.
FetchMsgs == fetchWorkCh \cup taken.fetchWork
SubmitMsgs == submitWorkCh \cup taken.submitWork
RateMsgs == submitRateCh \cup taken.submitRate
InFlight ==
  {<<s[1], {s[2].errc, s[2].res}>> : s \in FetchMsgs}
    \cup {<<s[1], {s[2].errc}>> : s \in SubmitMsgs}
    \cup {<<s[1], {s[2].done}>> : s \in RateMsgs}

\* The reply channels of call c that lose a value in this step.
ReadBy(c) ==
  {k \in ChanKinds : Len(chans'[<<c, k>>]) < Len(chans[<<c, k>>])}

\* C14: no two messages, parked or held by the worker, share a reply channel;
\* every reply channel a message carries was made by the call that sent the
\* message, and a work request carries two different channels; a value leaves
\* a reply channel of a call only in the step in which that call returns from
\* its reply wait, one value from one channel, and a returned call stays
\* returned.
C14_PrivateReplyChannels ==
  /\ [](/\ \A m, n \in InFlight : m # n => m[2] \cap n[2] = {}
        /\ \A m \in InFlight : \A ch \in m[2] : ch[1] = m[1]
        /\ \A m, n \in InFlight : m[1] = n[1] => m = n
        /\ \A s \in FetchMsgs : s[2].errc # s[2].res)
  /\ [][\A c \in Calls :
          /\ ReadBy(c) # {} =>
               /\ pc[c] = "wait" /\ pc'[c] = "done"
               /\ Cardinality(ReadBy(c)) = 1
               /\ \A k \in ReadBy(c) :
                    Len(chans'[<<c, k>>]) = Len(chans[<<c, k>>]) - 1
          /\ pc[c] = "done" => pc'[c] = "done"]_vars

\* C14 witness: the worker holds a work request and a solution of another
\* call is parked on its intake channel at the same time.
C14_Witness ==
  \E s \in taken.fetchWork, t \in submitWorkCh :
    /\ s[1] # t[1]
    /\ pc[s[1]] = "wait" /\ pc[t[1]] = "send"
    /\ {s[2].errc, s[2].res} \cap {t[2].errc} = {}

\* The messages on the three intake channels.
Intake == fetchWorkCh \cup submitWorkCh \cup submitRateCh

\* Call c takes a step of its own: it starts, leaves its send step through
\* the shutdown branch, or returns from its reply wait.
FacadeStep(c) ==
  \/ pc[c] = "idle" /\ pc'[c] # "idle"
  \/ pc[c] = "send" /\ pc'[c] = "done"
  \/ pc[c] = "wait" /\ pc'[c] = "done"

\* C15: no step of a call changes the shutdown signal, the remote handle or
\* the set of messages the worker holds; the signal changes only from open to
\* closed, in a step in which no call moves; and a call changes the intake
\* channels only by parking its own message when it starts and by
\* withdrawing it when it gives up at the send step.
C15_FacadeLeavesSignalAlone ==
  [][/\ \A c \in Calls :
          FacadeStep(c) =>
            /\ UNCHANGED <<exitCh, remote, taken, engineRate>>
            /\ \A s \in Intake' \ Intake : s[1] = c /\ pc[c] = "idle"
            /\ \A s \in Intake \ Intake' : s[1] = c /\ pc[c] = "send"
     /\ exitCh' # exitCh =>
          /\ exitCh = "open" /\ exitCh' = "closed"
          /\ pc' = pc
          /\ Intake' = Intake
     /\ remote' = remote]_vars

\* C15 witness: the engine closed the signal while a GetHashrate call and a
\* SubmitWork call ran; the submission gave up at its send step and the signal
\* is closed, as the engine set it.
C15_Witness ==
  /\ exitCh = "closed"
  /\ \E c, d \in Calls :
       /\ op[c] = "GetHashrate" /\ Returned(c)
       /\ op[d] = "SubmitWork" /\ Returned(d) /\ Offered(d) /\ ~Delivered(d)

\* The operations that talk to the worker.
BlockingOps == {"GetWork", "SubmitWork", "SubmitHashrate"}

\* The failure value of the operation of call c, after the step.
FailureValue(c) ==
  /\ op'[c] = "GetWork" => (ret'[c].res = Empty11 /\ ret'[c].err # Nil)
  /\ op'[c] \in {"SubmitWork", "SubmitHashrate"} => ok'[c] = FALSE

\* The steps of the per-call state machine.
NoEngineFail(c) ==
  pc[c] = "idle" /\ pc'[c] = "done" /\ ~remote /\ FailureValue(c)
EngineIdle(c) ==
  pc[c] = "idle" /\ pc'[c] = "send" /\ remote /\ Parked(c)'
ShutdownBeforeSend(c) ==
  /\ pc[c] = "send" /\ pc'[c] = "done"
  /\ exitCh = "closed" /\ ~Delivered(c)' /\ FailureValue(c)
MessageSent(c) ==
  pc[c] = "send" /\ pc'[c] = "wait" /\ Delivered(c)' /\ ~Delivered(c)
Replied(c) ==
  pc[c] = "wait" /\ pc'[c] = "done" /\ replied[c].kind # "none"
DecodeFail(c) ==
  /\ pc[c] = "idle" /\ pc'[c] = "done" /\ remote
  /\ BadExtraNonce(c)' /\ FailureValue(c) /\ ~Parked(c)'

\* If the worker answers the message of call c whenever it takes it, and either
\* takes the message or closes the shutdown signal while c is at its send
\* step, then call c, once started, returns.
ReturnsIfServed(c) ==
  (/\ [](Delivered(c) => <>(replied[c].kind # "none"))
   /\ [](pc[c] = "send" => <>(Delivered(c) \/ exitCh = "closed")))
    => [](pc[c] # "idle" => <>Returned(c))

\* C16 as stated: every step of a GetWork, SubmitWork or SubmitHashrate call
\* is a step of NoEngine -> fail, EngineIdle -> ShutdownBeforeSend or
\* EngineIdle -> MessageSent -> Replied, a returned call stays returned, and a
\* call the worker serves returns.
C16_ThreeHistories ==
  /\ [][\A c \in Calls :
          /\ (pc'[c] # pc[c] /\ op'[c] \in BlockingOps) =>
               \/ NoEngineFail(c)
               \/ EngineIdle(c)
               \/ ShutdownBeforeSend(c)
               \/ MessageSent(c)
               \/ Replied(c)
          /\ Returned(c) => Returned(c)']_vars
  /\ \A c \in Calls : ReturnsIfServed(c)

\* C16 amended: as above, with a fourth history: a SubmitWork call whose
\* extra-nonce text does not decode fails with an engine configured, without
\* sending a message.
C16_FourHistories ==
  /\ [][\A c \in Calls :
          /\ (pc'[c] # pc[c] /\ op'[c] \in BlockingOps) =>
               \/ NoEngineFail(c)
               \/ DecodeFail(c)
               \/ EngineIdle(c)
               \/ ShutdownBeforeSend(c)
               \/ MessageSent(c)
               \/ Replied(c)
          /\ Returned(c) => Returned(c)']_vars
  /\ \A c \in Calls : ReturnsIfServed(c)

\* C16 witness: with an engine configured, a SubmitWork call failed on its
\* extra nonce without sending, and another call was answered and returned.
C16_Witness ==
  /\ remote
  /\ \E c, d \in Calls :
       /\ BadExtraNonce(c) /\ Returned(c) /\ ~Offered(c)
       /\ op[d] \in BlockingOps /\ Returned(d)
       /\ Delivered(d) /\ replied[d].kind # "none"

\* The worker holds a message of call c.
Held(c) ==
  \E s \in taken.fetchWork \cup taken.submitWork \cup taken.submitRate :
    s[1] = c

\* Call c returned through the shutdown branch of its select.
GaveUp(c) == Returned(c) /\ Offered(c) /\ ~Delivered(c)

\* C17: for one call the send and the shutdown branch exclude each other.  A
\* call that returns from its send step has not delivered its message, and
\* the message is neither parked nor held by the worker afterwards; such a
\* call stays undelivered for ever.  A message is delivered only to a call at
\* its send step, which then waits for the reply; a call whose message was
\* delivered returns only from its reply wait, and a delivered GetWork call
\* never returns "ethash stopped".
C17_SendExcludesShutdownBranch ==
  /\ [][\A c \in Calls :
          /\ (pc[c] = "send" /\ pc'[c] = "done") =>
               (~Delivered(c)' /\ ~Parked(c)' /\ ~Held(c)')
          /\ GaveUp(c) => GaveUp(c)'
          /\ (~Delivered(c) /\ Delivered(c)') =>
               (pc[c] = "send" /\ pc'[c] = "wait")
          /\ (Delivered(c) /\ pc'[c] # pc[c]) =>
               (pc[c] = "wait" /\ pc'[c] = "done")]_vars
  /\ [](\A c \in Calls :
          /\ Delivered(c) => pc[c] \in {"wait", "done"}
          /\ (Delivered(c) /\ Returned(c) /\ op[c] = "GetWork") =>
               ret[c].err # errEthashStopped
          /\ (Delivered(c) /\ Returned(c) /\ op[c] = "SubmitHashrate") =>
               ok[c])

\* C17 witness: the worker took and answered the message of one call, then
\* shutdown came while another call was at its send step; that call returned
\* through the shutdown branch undelivered, the first returned its reply.
C17_Witness ==
  /\ exitCh = "closed"
  /\ \E c, d \in Calls :
       /\ GaveUp(c)
       /\ Delivered(d) /\ Returned(d) /\ replied[d].kind # "none"
       /\ Len(delivered) = 1

\* Call c has an unread reply in one of its channels.
ReplyBuffered(c) == \E k \in ChanKinds : Len(chans[<<c, k>>]) = 1

\* C18: no reply channel ever holds more than one value; the reply channels
\* of a message that is parked or held by the worker are empty; and while the
\* worker runs, every reply it may write for any message it holds can be
\* written at once, whatever the callers are doing.
C18_ReplyNeverBlocks ==
  /\ \A ch \in ChanIds : Len(chans[ch]) <= 1
  /\ \A m \in InFlight : \A ch \in m[2] : Len(chans[ch]) = 0
  /\ WorkerRunning =>
       /\ \A s \in taken.fetchWork :
            /\ \A work \in WorkPackages : ENABLED WorkerReplyWork(s, work)
            /\ \A err \in FetchErrors : ENABLED WorkerReplyWorkErr(s, err)
       /\ \A s \in taken.submitWork :
            \A err \in {Nil} \cup SubmitErrors :
              ENABLED WorkerReplySubmit(s, err)
       /\ \A s \in taken.submitRate : ENABLED WorkerReplyRate(s)

\* C18 witness: the worker has answered one call, which has not read the
\* reply yet, and holds the message of another call, which it can answer.
C18_Witness ==
  /\ WorkerRunning
  /\ \E c, d \in Calls :
       /\ c # d
       /\ pc[c] = "wait" /\ ReplyBuffered(c)
       /\ pc[d] = "wait" /\ Held(d)

====
